---- MODULE Spec2Model ----
(***************************************************************************)
(* Model of scripts/parse_xml.py: the CCDA extraction functions            *)
(* (parse_patient_data, parse_hospitalization_date, parse_hospitalizations,*)
(* parse_diagnoses, parse_ccda_date, extract_dosage, parse_medications)    *)
(* and the per-file driver process_xml_files.                              *)
(*                                                                         *)
(* Python str values are sequences of one-character strings.  Python None  *)
(* is PyNone.  A call's outcome is Ret(v) or Raise(exception name).        *)
(***************************************************************************)
EXTENDS Integers, Sequences, FiniteSets, TLC

VARIABLES
    arg,             \* the argument of the function under check
    fn,              \* the function that was called on arg ("" before the call)
    ret,             \* its outcome: Ret(value) or Raise(exception)
    libc_pads_year,  \* whether this build's strftime("%Y") zero-pads years < 1000
    listing,         \* process_xml_files: what os.listdir("data/incoming/") returned
    file,            \* the position in listing of the file of this iteration (0 before the loop)
    pc,              \* the statement process_xml_files is about to execute
    patient_data,    \* its local patient_data
    hospitalizations,\* its local hospitalizations
    diagnoses,       \* its local diagnoses
    medications,     \* its local medications
    calls,           \* the calls made so far: [fn, file, args, ret], args without the root
    processed,       \* the positions in listing of the files moved to data/processed
    raised           \* the exception that ended process_xml_files ("" while none has)

driver == <<listing, file, pc, patient_data, hospitalizations, diagnoses, medications,
            calls, processed, raised>>
vars == <<arg, fn, ret, libc_pads_year, listing, file, pc, patient_data, hospitalizations,
          diagnoses, medications, calls, processed, raised>>

-----------------------------------------------------------------------------
(* Python values *)

PyNone == <<"<None>">>
Ret(v) == [kind |-> "return", val |-> v]
Raise(e) == [kind |-> "raise", exc |-> e]
NotCalled == [kind |-> "none"]

\* a local of process_xml_files that is not bound yet
Unbound == [kind |-> "unbound"]

\* process_xml_files is not running
DriverIdle ==
    /\ listing = <<>>
    /\ file = 0
    /\ pc = "idle"
    /\ patient_data = Unbound
    /\ hospitalizations = Unbound
    /\ diagnoses = Unbound
    /\ medications = Unbound
    /\ calls = <<>>
    /\ processed = {}
    /\ raised = ""

\* the element of a one-element set
The(S) == CHOOSE x \in S : TRUE

-----------------------------------------------------------------------------
(* str primitives *)

DigitChars == <<"0", "1", "2", "3", "4", "5", "6", "7", "8", "9">>
UpperChars == <<"A", "B", "C", "D", "E", "F", "G", "H", "I", "J", "K", "L", "M",
                "N", "O", "P", "Q", "R", "S", "T", "U", "V", "W", "X", "Y", "Z">>
LowerChars == <<"a", "b", "c", "d", "e", "f", "g", "h", "i", "j", "k", "l", "m",
                "n", "o", "p", "q", "r", "s", "t", "u", "v", "w", "x", "y", "z">>

Range(f) == {f[i] : i \in DOMAIN f}
IsDigit(c) == c \in Range(DigitChars)
IsUpper(c) == c \in Range(UpperChars)
IsLower(c) == c \in Range(LowerChars)
IsAlpha(c) == IsUpper(c) \/ IsLower(c)
IsSpace(c) == c \in {" ", "\t", "\n"}

DigitVal(c) == (CHOOSE i \in DOMAIN DigitChars : DigitChars[i] = c) - 1
LowerOf(c) == IF IsUpper(c) THEN LowerChars[CHOOSE i \in DOMAIN UpperChars : UpperChars[i] = c] ELSE c
UpperOf(c) == IF IsLower(c) THEN UpperChars[CHOOSE i \in DOMAIN LowerChars : LowerChars[i] = c] ELSE c

\* str.lower()
Lower(s) == [i \in DOMAIN s |-> LowerOf(s[i])]

\* s[a:b] with 0-based half-open Python indices, 0 <= a
Slice(s, a, b) == SubSeq(s, a + 1, IF b < Len(s) THEN b ELSE Len(s))

\* s.startswith(p, at 1-based position i)
MatchesAt(s, p, i) == i + Len(p) - 1 <= Len(s) /\ SubSeq(s, i, i + Len(p) - 1) = p

\* p in s
Contains(s, p) == \E i \in 1..(Len(s) + 1) : MatchesAt(s, p, i)

\* s.replace(old, new): every non-overlapping occurrence, left to right (old non-empty)
RECURSIVE ReplaceFrom(_, _, _, _)
ReplaceFrom(s, old, new, i) ==
    IF i > Len(s) THEN <<>>
    ELSE IF MatchesAt(s, old, i) THEN new \o ReplaceFrom(s, old, new, i + Len(old))
    ELSE <<s[i]>> \o ReplaceFrom(s, old, new, i + 1)
Replace(s, old, new) == IF old = <<>> THEN s ELSE ReplaceFrom(s, old, new, 1)

\* s.strip()
RECURSIVE LStrip(_)
LStrip(s) == IF s # <<>> /\ IsSpace(Head(s)) THEN LStrip(Tail(s)) ELSE s
RECURSIVE RStrip(_)
RStrip(s) == IF s # <<>> /\ IsSpace(s[Len(s)]) THEN RStrip(SubSeq(s, 1, Len(s) - 1)) ELSE s
Strip(s) == RStrip(LStrip(s))

\* " ".join(s.split()): whitespace runs collapsed to one space, ends trimmed
RECURSIVE CollapseFrom(_, _)
CollapseFrom(s, i) ==
    IF i > Len(s) THEN <<>>
    ELSE IF IsSpace(s[i])
         THEN IF i > 1 /\ IsSpace(s[i - 1]) THEN CollapseFrom(s, i + 1)
              ELSE <<" ">> \o CollapseFrom(s, i + 1)
         ELSE <<s[i]>> \o CollapseFrom(s, i + 1)
JoinSplit(s) == LET t == Strip(s) IN CollapseFrom(t, 1)

\* int(s): optional surrounding whitespace, optional sign, digits with single
\* underscores between them; anything else is ValueError
RECURSIVE DigitsValue(_, _)
DigitsValue(s, acc) ==
    IF s = <<>> THEN acc
    ELSE IF Head(s) = "_" THEN DigitsValue(Tail(s), acc)
    ELSE DigitsValue(Tail(s), acc * 10 + DigitVal(Head(s)))
PyInt(s) ==
    LET t == Strip(s)
        signed == t # <<>> /\ Head(t) \in {"+", "-"}
        body == IF signed THEN Tail(t) ELSE t
        wellFormed ==
            /\ body # <<>>
            /\ \A i \in DOMAIN body : IsDigit(body[i]) \/ body[i] = "_"
            /\ IsDigit(body[1]) /\ IsDigit(body[Len(body)])
            /\ \A i \in 1..(Len(body) - 1) : ~(body[i] = "_" /\ body[i + 1] = "_")
    IN  IF ~wellFormed THEN Raise("ValueError")
        ELSE Ret(IF signed /\ Head(t) = "-" THEN 0 - DigitsValue(body, 0)
                 ELSE DigitsValue(body, 0))

\* zero-padded decimal of n >= 0 on at least w digits
RECURSIVE Decimal(_)
Decimal(n) == IF n < 10 THEN <<DigitChars[n + 1]>> ELSE Decimal(n \div 10) \o <<DigitChars[(n % 10) + 1]>>
RECURSIVE PadZero(_, _)
PadZero(s, w) == IF Len(s) >= w THEN s ELSE PadZero(<<"0">> \o s, w)

-----------------------------------------------------------------------------
(* datetime: the proleptic Gregorian calendar of the datetime module *)

MINYEAR == 1
MAXYEAR == 9999

IsLeap(y) == y % 4 = 0 /\ (y % 100 # 0 \/ y % 400 = 0)
DaysInMonth(y, m) ==
    IF m = 2 THEN (IF IsLeap(y) THEN 29 ELSE 28)
    ELSE IF m \in {4, 6, 9, 11} THEN 30 ELSE 31
DaysBeforeYear(y) == (y - 1) * 365 + (y - 1) \div 4 - (y - 1) \div 100 + (y - 1) \div 400
RECURSIVE DaysBeforeMonth(_, _)
DaysBeforeMonth(y, m) == IF m = 1 THEN 0 ELSE DaysBeforeMonth(y, m - 1) + DaysInMonth(y, m - 1)
ToOrdinal(y, m, d) == DaysBeforeYear(y) + DaysBeforeMonth(y, m) + d

\* ordinal -> <<year, month, day>> (the 400/100/4/1-year cycle decomposition)
RECURSIVE MonthOfDay(_, _, _)
MonthOfDay(y, m, n) ==
    IF n < DaysInMonth(y, m) THEN <<m, n + 1>> ELSE MonthOfDay(y, m + 1, n - DaysInMonth(y, m))
FromOrdinal(ord) ==
    LET n0 == ord - 1
        n400 == n0 \div 146097
        r400 == n0 % 146097
        n100 == r400 \div 36524
        r100 == r400 % 36524
        n4 == r100 \div 1461
        r4 == r100 % 1461
        n1 == r4 \div 365
        r1 == r4 % 365
        year == n400 * 400 + n100 * 100 + n4 * 4 + n1 + 1
    IN  IF n1 = 4 \/ n100 = 4 THEN <<year - 1, 12, 31>>
        ELSE LET md == MonthOfDay(year, 1, r1) IN <<year, md[1], md[2]>>

DateTime(y, mo, d, h, mi, s) == [year |-> y, month |-> mo, day |-> d, hour |-> h, minute |-> mi, second |-> s]

\* datetime(...) constructor: ValueError on a field out of range
ValidDateTime(y, mo, d, h, mi, s) ==
    /\ MINYEAR <= y /\ y <= MAXYEAR
    /\ 1 <= mo /\ mo <= 12
    /\ 1 <= d /\ d <= DaysInMonth(y, mo)
    /\ 0 <= h /\ h <= 23
    /\ 0 <= mi /\ mi <= 59
    /\ 0 <= s /\ s <= 59

\* dt - timedelta(hours=hours, minutes=minutes): OverflowError outside MINYEAR..MAXYEAR
MinusTimedelta(dt, hours, minutes) ==
    LET minuteOfDay == dt.hour * 60 + dt.minute - (hours * 60 + minutes)
        ord == ToOrdinal(dt.year, dt.month, dt.day) + minuteOfDay \div 1440
        rest == minuteOfDay % 1440
    IN  IF ord < 1 \/ ord > ToOrdinal(MAXYEAR, 12, 31) THEN Raise("OverflowError")
        ELSE LET ymd == FromOrdinal(ord)
             IN  Ret(DateTime(ymd[1], ymd[2], ymd[3], rest \div 60, rest % 60, dt.second))

\* dt.strftime("%Y-%m-%d %H:%M:%S"); %Y of a year below 1000 is padded to four
\* digits or not, depending on the C library the interpreter is built on
StrftimeCanonical(dt) ==
    (IF libc_pads_year THEN PadZero(Decimal(dt.year), 4) ELSE Decimal(dt.year))
    \o <<"-">> \o PadZero(Decimal(dt.month), 2)
    \o <<"-">> \o PadZero(Decimal(dt.day), 2)
    \o <<" ">> \o PadZero(Decimal(dt.hour), 2)
    \o <<":">> \o PadZero(Decimal(dt.minute), 2)
    \o <<":">> \o PadZero(Decimal(dt.second), 2)

-----------------------------------------------------------------------------
(* re: a pattern is a sequence of atoms, matched with backtracking.  An atom *)
(* is a greedy repetition of a character class, Rep(class, min, max) with    *)
(* max = -1 for no limit, an optional group Opt(<<atoms>>), or an ordered    *)
(* choice Alt(<<alternatives>>), each alternative a sequence of character    *)
(* sets.                                                                     *)

Rep(class, min, max) == [atom |-> "rep", class |-> class, min |-> min, max |-> max]
Opt(sub) == [atom |-> "opt", sub |-> sub]
Alt(alts) == [atom |-> "alt", alts |-> alts]

InClass(c, class) ==
    CASE class = "\\d" -> IsDigit(c)
      [] class = "\\s" -> IsSpace(c)
      [] class = "[A-Za-z]" -> IsAlpha(c)
      [] OTHER -> c = class

\* the literal text lit as atoms
Literal(lit) == [i \in DOMAIN lit |-> Rep(lit[i], 1, 1)]

\* how many characters of s from pos on are in class, at most max when max >= 0
RECURSIVE RunLength(_, _, _, _)
RunLength(s, pos, class, max) ==
    IF max = 0 \/ pos > Len(s) \/ ~InClass(s[pos], class) THEN 0
    ELSE 1 + RunLength(s, pos + 1, class, max - 1)

AltMatches(alt, s, pos) ==
    /\ pos + Len(alt) - 1 <= Len(s)
    /\ \A k \in DOMAIN alt : s[pos + k - 1] \in alt[k]

NoMatch == [ok |-> FALSE, lens |-> <<>>]
SumSeq(q) == LET RECURSIVE Sum(_)
                 Sum(i) == IF i = 0 THEN 0 ELSE q[i] + Sum(i - 1)
             IN  Sum(Len(q))

\* the first match, in backtracking order, of atoms k.. of re at pos:
\* lens[i] is the length taken by atom k+i-1
RECURSIVE MatchAtoms(_, _, _, _)
RECURSIVE TryCounts(_, _, _, _, _)
RECURSIVE TryAlts(_, _, _, _, _)
MatchAtoms(re, s, pos, k) ==
    IF k > Len(re) THEN [ok |-> TRUE, lens |-> <<>>]
    ELSE IF re[k].atom = "rep"
         THEN TryCounts(re, s, pos, k, RunLength(s, pos, re[k].class, re[k].max))
    ELSE IF re[k].atom = "alt" THEN TryAlts(re, s, pos, k, 1)
    ELSE LET n == Len(re[k].sub)
             with == MatchAtoms(re[k].sub \o SubSeq(re, k + 1, Len(re)), s, pos, 1)
         IN  IF with.ok
             THEN [ok |-> TRUE,
                   lens |-> <<SumSeq(SubSeq(with.lens, 1, n))>> \o SubSeq(with.lens, n + 1, Len(with.lens))]
             ELSE LET without == MatchAtoms(re, s, pos, k + 1)
                  IN  IF without.ok THEN [ok |-> TRUE, lens |-> <<0>> \o without.lens] ELSE NoMatch
TryCounts(re, s, pos, k, n) ==
    IF n < re[k].min THEN NoMatch
    ELSE LET r == MatchAtoms(re, s, pos + n, k + 1)
         IN  IF r.ok THEN [ok |-> TRUE, lens |-> <<n>> \o r.lens]
             ELSE TryCounts(re, s, pos, k, n - 1)
TryAlts(re, s, pos, k, a) ==
    IF a > Len(re[k].alts) THEN NoMatch
    ELSE IF AltMatches(re[k].alts[a], s, pos)
         THEN LET n == Len(re[k].alts[a])
                  r == MatchAtoms(re, s, pos + n, k + 1)
              IN  IF r.ok THEN [ok |-> TRUE, lens |-> <<n>> \o r.lens]
                  ELSE TryAlts(re, s, pos, k, a + 1)
         ELSE TryAlts(re, s, pos, k, a + 1)

\* re.match(re, s): the match at the start of s
ReMatch(re, s) == MatchAtoms(re, s, 1, 1)

\* the text of group g (atoms from..to) of a match m that starts at start
GroupText(s, start, m, from, to) ==
    LET before == SumSeq(SubSeq(m.lens, 1, from - 1))
    IN  SubSeq(s, start + before, start + before + SumSeq(SubSeq(m.lens, from, to)) - 1)

\* re.search(re, s) from position pos on: [ok, start, lens] of the leftmost match
RECURSIVE SearchFrom(_, _, _)
SearchFrom(re, s, pos) ==
    IF pos > Len(s) + 1 THEN [ok |-> FALSE, start |-> 0, lens |-> <<>>]
    ELSE LET m == MatchAtoms(re, s, pos, 1)
         IN  IF m.ok THEN [ok |-> TRUE, start |-> pos, lens |-> m.lens]
             ELSE SearchFrom(re, s, pos + 1)

-----------------------------------------------------------------------------
(* strptime: the format is compiled to a regular expression, one group per   *)
(* directive, each group an ordered list of alternatives; re.match takes the *)
(* first match in backtracking order, and text left over is a ValueError.    *)

D09 == Range(DigitChars)
D19 == D09 \ {"0"}

ReYear == <<<<D09, D09, D09, D09>>>>
ReMonth == <<<<{"1"}, {"0", "1", "2"}>>, <<{"0"}, D19>>, <<D19>>>>
ReDay == <<<<{"3"}, {"0", "1"}>>, <<{"1", "2"}, D09>>, <<{"0"}, D19>>, <<D19>>, <<{" "}, D19>>>>
ReHour24 == <<<<{"2"}, {"0", "1", "2", "3"}>>, <<{"0", "1"}, D09>>, <<D09>>>>
ReMinute == <<<<{"0", "1", "2", "3", "4", "5"}, D09>>, <<D09>>>>
ReSecond == <<<<{"6"}, {"0", "1"}>>, <<{"0", "1", "2", "3", "4", "5"}, D09>>, <<D09>>>>

\* "%Y%m%d%H%M%S"
CompactFormat == <<Alt(ReYear), Alt(ReMonth), Alt(ReDay), Alt(ReHour24), Alt(ReMinute), Alt(ReSecond)>>

\* the number a matched group stands for (a leading space of %d is skipped)
GroupInt(g) == DigitsValue(LStrip(g), 0)

\* datetime.strptime(s, "%Y%m%d%H%M%S")
StrptimeCompact(s) ==
    LET m == ReMatch(CompactFormat, s)
        G(i) == GroupInt(GroupText(s, 1, m, i, i))
    IN  IF ~m.ok \/ SumSeq(m.lens) # Len(s) THEN Raise("ValueError")
        ELSE IF ValidDateTime(G(1), G(2), G(3), G(4), G(5), G(6))
             THEN Ret(DateTime(G(1), G(2), G(3), G(4), G(5), G(6)))
             ELSE Raise("ValueError")

-----------------------------------------------------------------------------
(* parse_hospitalization_date / parse_ccda_date *)

\* lines 121-125: the offset after the first 14 characters is subtracted
ApplyOffset(dt, offset) ==
    LET hours == PyInt(Slice(offset, 0, 3))
    IN  IF hours.kind = "raise" THEN hours
        ELSE LET minutes == PyInt(Slice(offset, 3, Len(offset)))
             IN  IF minutes.kind = "raise" THEN minutes
                 ELSE MinusTimedelta(dt, hours.val, minutes.val)

\* the try body: only ValueError is caught
NormalizeCompact(date_str) ==
    IF Len(date_str) >= 8
    THEN LET parsed == StrptimeCompact(Slice(date_str, 0, 14))
         IN  IF parsed.kind = "raise" THEN parsed
             ELSE LET shifted == IF Len(date_str) > 14
                                 THEN ApplyOffset(parsed.val, Slice(date_str, 14, Len(date_str)))
                                 ELSE parsed
                  IN  IF shifted.kind = "raise" THEN shifted
                      ELSE Ret(StrftimeCanonical(shifted.val))
    ELSE Ret(PyNone)

CatchValueError(r) == IF r.kind = "raise" /\ r.exc = "ValueError" THEN Ret(PyNone) ELSE r

parse_hospitalization_date(date_str) ==
    IF date_str = PyNone \/ date_str = <<>> THEN Ret(PyNone)
    ELSE CatchValueError(NormalizeCompact(date_str))

\* lines 257-271 repeat lines 115-129 word for word
parse_ccda_date(ccda_date) ==
    IF ccda_date = PyNone \/ ccda_date = <<>> THEN Ret(PyNone)
    ELSE CatchValueError(NormalizeCompact(ccda_date))

-----------------------------------------------------------------------------
(* Compact timestamps given to the normalizer: every combination of the     *)
(* parts below, followed by an offset or cut short.                         *)

Years ==
    {<<"0", "0", "0", "1">>,
     <<"0", "9", "9", "9">>,
     <<"1", "9", "0", "0">>,
     <<"2", "0", "0", "0">>,
     <<"2", "0", "2", "3">>,
     <<"2", "0", "2", "4">>,
     <<"9", "9", "9", "9">>}
MonthDays ==
    {<<"0", "1", "0", "1">>,
     <<"0", "2", "2", "8">>,
     <<"0", "2", "2", "9">>,
     <<"0", "3", "0", "1">>,
     <<"0", "6", "1", "5">>,
     <<"0", "6", "3", "1">>,
     <<"1", "2", "3", "1">>,
     <<"1", "3", "0", "1">>}
HourMinutes ==
    {<<"0", "0", "0", "0">>,
     <<"0", "4", "5", "9">>,
     <<"0", "5", "0", "0">>,
     <<"1", "4", "0", "0">>,
     <<"2", "3", "5", "9">>,
     <<"2", "4", "0", "0">>}
Seconds ==
    {<<"0", "0">>,
     <<"6", "0">>}
Offsets ==
    {<<"+", "0", "5", "0", "0">>,
     <<"-", "0", "5", "0", "0">>,
     <<"-", "0", "5", "3", "0">>,
     <<"+", "0", "5", "3", "0">>,
     <<"+", "0", "0", "0", "0">>,
     <<"0", "5", "0", "0">>,
     <<"+", "0", "5">>,
     <<"Z">>,
     <<"+", "0", "5", ":", "0", "0">>,
     <<" ", "5", "0", "0">>}

Timestamps14 == {y \o md \o hm \o s : y \in Years, md \in MonthDays, hm \in HourMinutes, s \in Seconds}
DateInputs ==
    {t \o o : t \in Timestamps14, o \in Offsets}
    \cup {SubSeq(t, 1, n) : t \in Timestamps14, n \in 0..14}
    \cup {PyNone}

InitDate ==
    /\ arg \in DateInputs
    /\ fn = ""
    /\ ret = NotCalled
    /\ libc_pads_year \in BOOLEAN
    /\ DriverIdle

CallParseHospitalizationDate ==
    /\ fn = ""
    /\ fn' = "parse_hospitalization_date"
    /\ ret' = parse_hospitalization_date(arg)
    /\ UNCHANGED <<arg, libc_pads_year, driver>>

CallParseCcdaDate ==
    /\ fn = ""
    /\ fn' = "parse_ccda_date"
    /\ ret' = parse_ccda_date(arg)
    /\ UNCHANGED <<arg, libc_pads_year, driver>>

NextDate == CallParseHospitalizationDate \/ CallParseCcdaDate

SpecDate == InitDate /\ [][NextDate]_vars

-----------------------------------------------------------------------------
(* extract_dosage *)

\* r"(\d*\.?\d+(?:\s*[A-Za-z]+)(?:/\s*[A-Za-z]+)?)"
DosagePattern ==
    <<Rep("\\d", 0, -1), Rep(".", 0, 1), Rep("\\d", 1, -1),
      Rep("\\s", 0, -1), Rep("[A-Za-z]", 1, -1),
      Opt(<<Rep("/", 1, 1), Rep("\\s", 0, -1), Rep("[A-Za-z]", 1, -1)>>)>>

\* r"(\d*\.?\d+)([A-Za-z]+)": group 1 is atoms 1-3, group 2 is atom 4
SpacingPattern ==
    <<Rep("\\d", 0, -1), Rep(".", 0, 1), Rep("\\d", 1, -1), Rep("[A-Za-z]", 1, -1)>>

\* re.sub(SpacingPattern, r"\1 \2", s): every match, left to right
RECURSIVE SubSpacingFrom(_, _)
SubSpacingFrom(s, pos) ==
    LET m == SearchFrom(SpacingPattern, s, pos)
    IN  IF ~m.ok THEN SubSeq(s, pos, Len(s))
        ELSE LET g1 == m.lens[1] + m.lens[2] + m.lens[3]
                 g2 == m.lens[4]
             IN  SubSeq(s, pos, m.start - 1)
                 \o SubSeq(s, m.start, m.start + g1 - 1) \o <<" ">>
                 \o SubSeq(s, m.start + g1, m.start + g1 + g2 - 1)
                 \o SubSpacingFrom(s, m.start + g1 + g2)

\* line 283: the dosage text is taken out of the name
RemoveDosage(medication_name, dosage) == Replace(medication_name, dosage, <<>>)

\* returns the pair (dosage, cleaned_name)
extract_dosage(medication_name) ==
    IF medication_name = PyNone \/ medication_name = <<>> THEN Ret(<<PyNone, PyNone>>)
    ELSE LET dosage_match == SearchFrom(DosagePattern, medication_name, 1)
         IN  IF dosage_match.ok
             THEN LET dosage == SubSeq(medication_name, dosage_match.start,
                                       dosage_match.start + SumSeq(dosage_match.lens) - 1)
                      cleaned_name == JoinSplit(Strip(RemoveDosage(medication_name, dosage)))
                  IN  Ret(<<SubSpacingFrom(dosage, 1), cleaned_name>>)
             ELSE Ret(<<PyNone, medication_name>>)

\* names given to extract_dosage: every string of at most MaxNameLen of these
MaxNameLen == 5
NameChars == {"m", "g", "5", ".", "/", " "}
RECURSIVE StringsUpTo(_, _)
StringsUpTo(chars, n) ==
    IF n = 0 THEN {<<>>}
    ELSE LET shorter == StringsUpTo(chars, n - 1)
         IN  shorter \cup {Append(s, c) : s \in {x \in shorter : Len(x) = n - 1}, c \in chars}
DosageInputs == StringsUpTo(NameChars, MaxNameLen)

InitDosage ==
    /\ arg \in DosageInputs
    /\ fn = ""
    /\ ret = NotCalled
    /\ libc_pads_year = TRUE
    /\ DriverIdle

CallExtractDosage ==
    /\ fn = ""
    /\ fn' = "extract_dosage"
    /\ ret' = extract_dosage(arg)
    /\ UNCHANGED <<arg, libc_pads_year, driver>>

NextDosage == CallExtractDosage

SpecDosage == InitDosage /\ [][NextDosage]_vars

-----------------------------------------------------------------------------
(* parse_patient_data.  A document root is a record; the part read here:     *)
(*   patientRole  whether a patientRole element exists                       *)
(*   ids          the extension attribute (PyNone when the attribute is      *)
(*                missing) of every id element, in document order            *)
(*   telecoms     the patientRole/telecom elements in document order, each   *)
(*                [use, value] with PyNone for a missing attribute           *)
(* The name, birth date, gender, race, ethnicity, marital status, address    *)
(* and language fields are read from attributes and text with defaults and   *)
(* take no part in any decision; they are left out of the record.            *)

TelPrefix == <<"t", "e", "l", ":">>
MailtoPrefix == <<"m", "a", "i", "l", "t", "o", ":">>
MailtoWord == <<"m", "a", "i", "l", "t", "o">>
HpMarker == <<"h", "p">>
McMarker == <<"m", "c">>
HMarker == <<"h">>
NoneSentinel == <<"N", "o", "n", "e">>
NotAvailable == <<"N", "/", "A">>
LowerNone == <<"n", "o", "n", "e">>
LowerNull == <<"n", "u", "l", "l">>

\* element.get(name, default)
GetAttr(v, default) == IF v = PyNone THEN default ELSE v

EmptyDict == [dict |-> "empty"]

\* a NoneIfNull that forgets .lower(): only the lower-case spellings are caught
NoneIfNullCaseSensitive(telecom_value) ==
    IF telecom_value \in {LowerNone, LowerNull} THEN NoneSentinel ELSE telecom_value

\* value if value.lower() not in ["none", "null"] else "None"
NoneIfNull(telecom_value) ==
    IF Lower(telecom_value) \in {LowerNone, LowerNull} THEN NoneSentinel ELSE telecom_value

\* line 84
TelecomValue(telecom) ==
    Strip(Replace(Replace(GetAttr(telecom.value, <<>>), TelPrefix, <<>>), MailtoPrefix, <<>>))
\* line 85
TelecomUse(telecom) == Lower(Strip(GetAttr(telecom.use, <<>>)))

\* lines 86-91: which field a telecom entry is stored in ("" for none)
TelecomClass(telecom_use, telecom_value) ==
    IF Contains(telecom_use, HpMarker) THEN "home_phone"
    ELSE IF Contains(telecom_use, McMarker) THEN "mobile_phone"
    ELSE IF Contains(telecom_use, HMarker) /\ Contains(telecom_value, MailtoWord) THEN "email"
    ELSE ""

\* one pass of the loop of lines 83-91 over the contact fields
TelecomBody(contact, telecom) ==
    LET telecom_value == TelecomValue(telecom)
        class == TelecomClass(TelecomUse(telecom), telecom_value)
    IN  IF class = "" THEN contact
        ELSE [contact EXCEPT ![class] = NoneIfNull(telecom_value)]

RECURSIVE TelecomLoop(_, _, _)
TelecomLoop(contact, telecoms, i) ==
    IF i > Len(telecoms) THEN contact
    ELSE TelecomLoop(TelecomBody(contact, telecoms[i]), telecoms, i + 1)

\* lines 40-41
PatientId(root) == IF root.ids = <<>> THEN NotAvailable ELSE root.ids[1]

\* a parse_patient_data without the test of lines 36-38 for a missing patientRole
ParsePatientDataAnyRole(root) ==
    LET contact == TelecomLoop([home_phone |-> NoneSentinel, mobile_phone |-> NoneSentinel,
                                email |-> NoneSentinel], root.telecoms, 1)
    IN  Ret([patient_id |-> PatientId(root), home_phone |-> contact.home_phone,
             mobile_phone |-> contact.mobile_phone, email |-> contact.email])

parse_patient_data(root) ==
    IF ~root.patientRole THEN Ret(EmptyDict)
    ELSE LET contact == TelecomLoop([home_phone |-> NoneSentinel, mobile_phone |-> NoneSentinel,
                                     email |-> NoneSentinel], root.telecoms, 1)
         IN  Ret([patient_id |-> PatientId(root), home_phone |-> contact.home_phone,
                  mobile_phone |-> contact.mobile_phone, email |-> contact.email])

\* documents given to parse_patient_data: at most MaxTelecoms telecom entries
MaxTelecoms == 2
TelecomUses ==
    {<<"H", "P">>,
     <<"M", "C">>,
     <<"H">>,
     <<"W", "P">>,
     <<"h", "p">>,
     PyNone}
TelecomValues ==
    {<<"t", "e", "l", ":", "5", "5", "5", "-", "1", "2", "1", "2">>,
     <<"m", "a", "i", "l", "t", "o", ":", "a", "@", "b">>,
     <<"N", "U", "L", "L">>,
     <<"t", "e", "l", ":", "n", "o", "n", "e">>,
     <<"m", "a", "i", "l", "t", "o", ":", "m", "a", "i", "l", "t", "o", "@", "b">>,
     PyNone}
Telecoms == [use : TelecomUses, value : TelecomValues]
RECURSIVE SeqsUpTo(_, _)
SeqsUpTo(S, n) ==
    IF n = 0 THEN {<<>>}
    ELSE LET shorter == SeqsUpTo(S, n - 1)
         IN  shorter \cup {Append(q, x) : q \in {y \in shorter : Len(y) = n - 1}, x \in S}
IdLists == {<<>>, <<PyNone>>, <<<<"1", "2", "3">>>>}
PatientInputs ==
    {[patientRole |-> FALSE, ids |-> ids, telecoms |-> <<>>] : ids \in IdLists}
    \cup {[patientRole |-> TRUE, ids |-> ids, telecoms |-> tc] :
            ids \in IdLists, tc \in SeqsUpTo(Telecoms, MaxTelecoms)}

InitPatient ==
    /\ arg \in PatientInputs
    /\ fn = ""
    /\ ret = NotCalled
    /\ libc_pads_year = TRUE
    /\ DriverIdle

CallParsePatientData ==
    /\ fn = ""
    /\ fn' = "parse_patient_data"
    /\ ret' = parse_patient_data(arg)
    /\ UNCHANGED <<arg, libc_pads_year, driver>>

NextPatient == CallParsePatientData

SpecPatient == InitPatient /\ [][NextPatient]_vars

-----------------------------------------------------------------------------
(* parse_diagnoses.  The part of a document root read here:                  *)
(*   problemSection  whether a section with the problem-list template exists *)
(*   tbody           whether that section has a tbody                        *)
(*   rows            its tr elements: [ID, cells], cells the td elements,    *)
(*                   each the sequence of its content elements [ID, text]    *)
(*   entries         the entry elements of the document that hold a          *)
(*                   text/reference: [ref, translations], translations the   *)
(*                   ICD-10 translation elements [code, displayName]         *)
(* A missing attribute or text is PyNone.                                    *)

ProblemPrefix == <<"p", "r", "o", "b", "l", "e", "m", "-">>
ProblemSuffix == <<"-", "p", "r", "o", "b", "l", "e", "m">>
Hash == <<"#">>

\* r'problem-\d+'
ProblemIdPattern == Literal(ProblemPrefix) \o <<Rep("\\d", 1, -1)>>
\* r'\d{1,2}/\d{1,2}/\d{4}'
DateShapePattern ==
    <<Rep("\\d", 1, 2), Rep("/", 1, 1), Rep("\\d", 1, 2), Rep("/", 1, 1), Rep("\\d", 4, 4)>>

ReHour12 == ReMonth
ReAmPm == <<<<{"a", "A"}, {"m", "M"}>>, <<{"p", "P"}, {"m", "M"}>>>>
\* "%m/%d/%Y %I:%M:%S %p"
NarrativeFormat ==
    <<Alt(ReMonth), Rep("/", 1, 1), Alt(ReDay), Rep("/", 1, 1), Alt(ReYear), Rep("\\s", 1, -1),
      Alt(ReHour12), Rep(":", 1, 1), Alt(ReMinute), Rep(":", 1, 1), Alt(ReSecond),
      Rep("\\s", 1, -1), Alt(ReAmPm)>>

\* datetime.strptime(s, "%m/%d/%Y %I:%M:%S %p")
StrptimeNarrative(s) ==
    LET m == ReMatch(NarrativeFormat, s)
        G(i) == GroupInt(GroupText(s, 1, m, i, i))
        pm == Lower(GroupText(s, 1, m, 13, 13)) = <<"p", "m">>
        hour == IF pm THEN (IF G(7) = 12 THEN 12 ELSE G(7) + 12)
                ELSE (IF G(7) = 12 THEN 0 ELSE G(7))
    IN  IF ~m.ok \/ SumSeq(m.lens) # Len(s) THEN Raise("ValueError")
        ELSE IF ValidDateTime(G(5), G(1), G(3), hour, G(9), G(11))
             THEN Ret(DateTime(G(5), G(1), G(3), hour, G(9), G(11)))
             ELSE Raise("ValueError")

\* lines 221-226: the text of the first '<row-id>-problem' content of the first
\* cell that has one; .strip() of a content without text raises
RECURSIVE ProblemName(_, _, _)
ProblemName(cells, problem_id, i) ==
    IF i > Len(cells) THEN Ret(PyNone)
    ELSE LET content == SelectSeq(cells[i], LAMBDA c : c.ID = problem_id \o ProblemSuffix)
         IN  IF content # <<>>
             THEN IF content[1].text = PyNone THEN Raise("AttributeError")
                  ELSE Ret(Strip(content[1].text))
             ELSE ProblemName(cells, problem_id, i + 1)

\* a NarrativeDate that keeps the text as written
NarrativeDateAsWritten(text) == Strip(text)

\* lines 233-239: the canonical form of a narrative date, or the text itself
NarrativeDate(text) ==
    LET date_str == Strip(text)
        dt == StrptimeNarrative(date_str)
    IN  IF dt.kind = "raise" THEN date_str ELSE StrftimeCanonical(dt.val)

\* lines 229-240: the date of the first cell whose first content is date-shaped
RECURSIVE ProblemDate(_, _)
ProblemDate(cells, i) ==
    IF i > Len(cells) THEN PyNone
    ELSE LET content == cells[i]
         IN  IF /\ content # <<>>
                /\ content[1].text # PyNone /\ content[1].text # <<>>
                /\ ReMatch(DateShapePattern, content[1].text).ok
             THEN NarrativeDate(content[1].text)
             ELSE ProblemDate(cells, i + 1)

\* line 242: the entries whose text/reference points at the row
ReferencingEntries(root, problem_id) ==
    SelectSeq(root.entries, LAMBDA e : e.ref = Hash \o problem_id)

Truthy(v) == v # PyNone /\ v # <<>>

\* a KeepDiagnosis that takes a row with either of the two
KeepDiagnosisEither(problem_name, date) == Truthy(problem_name) \/ Truthy(date)

\* line 245: whether a row becomes a diagnosis
KeepDiagnosis(problem_name, date) == Truthy(problem_name) /\ Truthy(date)

\* lines 246-251: attrib[...] of a missing attribute raises KeyError
DiagnosisRecord(problem_name, date, entry) ==
    IF entry.translations = <<>>
    THEN Ret([diagnosis_description |-> problem_name, diagnosis_date |-> date,
              icd10_code |-> PyNone, severity |-> <<>>])
    ELSE LET translation == entry.translations[1]
         IN  IF translation.code = PyNone \/ translation.displayName = PyNone THEN Raise("KeyError")
             ELSE Ret([diagnosis_description |-> problem_name, diagnosis_date |-> date,
                       icd10_code |-> translation.code, severity |-> translation.displayName])

\* lines 216-251, one row: Ret(<<>>), Ret(<<diagnosis>>) or the exception raised
DiagnosisRow(root, tr) ==
    IF tr.ID = PyNone \/ tr.ID = <<>> \/ ~ReMatch(ProblemIdPattern, tr.ID).ok THEN Ret(<<>>)
    ELSE LET problem_name == ProblemName(tr.cells, tr.ID, 1)
         IN  IF problem_name.kind = "raise" THEN problem_name
             ELSE LET date == ProblemDate(tr.cells, 1)
                      entries == ReferencingEntries(root, tr.ID)
                  IN  IF entries = <<>> THEN Raise("IndexError")
                      ELSE IF KeepDiagnosis(problem_name.val, date)
                      THEN LET d == DiagnosisRecord(problem_name.val, date, entries[1])
                           IN  IF d.kind = "raise" THEN d ELSE Ret(<<d.val>>)
                      ELSE Ret(<<>>)

RECURSIVE DiagnosisLoop(_, _, _)
DiagnosisLoop(root, i, found) ==
    IF i > Len(root.rows) THEN Ret(found)
    ELSE The({IF r.kind = "raise" THEN r ELSE DiagnosisLoop(root, i + 1, found \o r.val) :
              r \in {DiagnosisRow(root, root.rows[i])}})

parse_diagnoses(root) ==
    IF ~root.problemSection THEN Ret(<<>>)
    ELSE IF ~root.tbody THEN Ret(<<>>)
    ELSE DiagnosisLoop(root, 1, <<>>)

\* documents given to parse_diagnoses: at most MaxRows rows and MaxEntries entries
MaxRows == 2
MaxEntries == 2

Problem1 == <<"p", "r", "o", "b", "l", "e", "m", "-", "1">>
Problem2 == <<"p", "r", "o", "b", "l", "e", "m", "-", "2">>
ProblemX == <<"p", "r", "o", "b", "l", "e", "m", "-", "x">>
Hypertension == <<"H", "y", "p", "e", "r", "t", "e", "n", "s", "i", "o", "n">>
NarrativeDateText == <<"0", "6", "/", "1", "5", "/", "2", "0", "2", "3", " ", "0", "2", ":", "3", "0", ":", "0", "0", " ", "P", "M">>
DateOnlyText == <<"0", "6", "/", "1", "5", "/", "2", "0", "2", "3">>
BlankText == <<" ", " ">>
I10 == <<"I", "1", "0">>
EssentialHypertension == <<"E", "s", "s", "e", "n", "t", "i", "a", "l", " ", "h", "y", "p", "e", "r", "t", "e", "n", "s", "i", "o", "n">>
E11 == <<"E", "1", "1">>

Content(id, text) == [ID |-> id, text |-> text]
NameCell(id, text) == <<Content(id \o ProblemSuffix, text)>>
DateCell(text) == <<Content(PyNone, text)>>
RowsFor(id) ==
    {[ID |-> id, cells |-> cells] : cells \in
        {<<NameCell(id, Hypertension), DateCell(NarrativeDateText)>>,
         <<NameCell(id, Hypertension)>>,
         <<DateCell(NarrativeDateText)>>,
         <<NameCell(id, PyNone), DateCell(NarrativeDateText)>>,
         <<NameCell(id, BlankText), DateCell(NarrativeDateText)>>,
         <<NameCell(id, Hypertension), DateCell(DateOnlyText)>>}}
Rows ==
    RowsFor(Problem1) \cup RowsFor(Problem2)
    \cup {[ID |-> id, cells |-> <<NameCell(Problem1, Hypertension), DateCell(NarrativeDateText)>>] :
            id \in {ProblemX, PyNone}}
Entries ==
    {[ref |-> Hash \o Problem1, translations |-> <<[code |-> I10, displayName |-> EssentialHypertension]>>],
     [ref |-> Hash \o Problem1, translations |-> <<>>],
     [ref |-> Hash \o Problem2, translations |-> <<[code |-> E11, displayName |-> PyNone]>>]}
DiagnosisInputs ==
    {[problemSection |-> FALSE, tbody |-> FALSE, rows |-> <<>>, entries |-> es] :
        es \in SeqsUpTo(Entries, MaxEntries)}
    \cup {[problemSection |-> TRUE, tbody |-> FALSE, rows |-> <<>>, entries |-> es] :
        es \in SeqsUpTo(Entries, MaxEntries)}
    \cup {[problemSection |-> TRUE, tbody |-> TRUE, rows |-> rs, entries |-> es] :
        rs \in SeqsUpTo(Rows, MaxRows), es \in SeqsUpTo(Entries, MaxEntries)}

InitDiagnoses ==
    /\ arg \in DiagnosisInputs
    /\ fn = ""
    /\ ret = NotCalled
    /\ libc_pads_year = TRUE
    /\ DriverIdle

CallParseDiagnoses ==
    /\ fn = ""
    /\ fn' = "parse_diagnoses"
    /\ ret' = parse_diagnoses(arg)
    /\ UNCHANGED <<arg, libc_pads_year, driver>>

NextDiagnoses == CallParseDiagnoses

SpecDiagnoses == InitDiagnoses /\ [][NextDiagnoses]_vars

-----------------------------------------------------------------------------
(* parse_medications.  The part of a document root read here:                *)
(*   medSection   whether a section with code 10160-0 exists                 *)
(*   medEntries   its entry elements: [substanceAdministration (whether it   *)
(*                has one), code, low, text], each of the last three the     *)
(*                elements found for manufacturedMaterial/code [displayName],*)
(*                effectiveTime/low [value] and entryRelationship/act/text   *)
(*                [text]: an empty sequence when there is none               *)

Unknown == <<"U", "n", "k", "n", "o", "w", "n">>
NoSpecificInstructions == <<"N", "o", " ", "s", "p", "e", "c", "i", "f", "i", "c", " ", "i", "n", "s", "t", "r", "u", "c", "t", "i", "o", "n", "s">>

\* str.title(): a letter after a letter is lowered, any other letter is raised
Title(s) ==
    [i \in DOMAIN s |-> IF i > 1 /\ IsAlpha(s[i - 1]) THEN LowerOf(s[i]) ELSE UpperOf(s[i])]
\* str.capitalize()
Capitalize(s) == [i \in DOMAIN s |-> IF i = 1 THEN UpperOf(s[i]) ELSE LowerOf(s[i])]

\* a PlaceholderOr that keeps the empty name
PlaceholderOrEmpty(name) == name

\* line 314: name or "Unknown"
PlaceholderOr(name) == IF name = <<>> THEN Unknown ELSE name

\* line 308: the display name, None without the attribute, "Unknown" without the element
DisplayName(entry) == IF entry.code = <<>> THEN Unknown ELSE entry.code[1].displayName

\* lines 314-323 for the pair (dosage, cleaned_name) that extract_dosage returned
MedicationOf(entry, split) ==
    IF split[2] = PyNone THEN {Raise("AttributeError")}
    ELSE {IF start_date.kind = "raise" THEN start_date
          ELSE IF entry.text # <<>> /\ entry.text[1].text = PyNone THEN Raise("AttributeError")
          ELSE Ret([medication_name |-> PlaceholderOr(name),
                    dosage |-> split[1],
                    start_date |-> start_date.val,
                    instructions |-> IF entry.text = <<>> THEN NoSpecificInstructions
                                     ELSE Capitalize(entry.text[1].text)]) :
            name \in {Title(split[2])},
            start_date \in {IF entry.low = <<>> THEN Ret(PyNone)
                            ELSE parse_ccda_date(entry.low[1].value)}}

\* lines 313-325 for an entry with a display name: Ret(medication) or the exception.
\* Each local is bound once, as a Python local is: The of a one-element set.
Medication(entry, medication_name) ==
    The(UNION {MedicationOf(entry, split) : split \in {extract_dosage(medication_name).val}})

\* lines 302-325, one entry: Ret(<<>>), Ret(<<medication>>) or the exception raised
MedicationEntry(entry) ==
    IF ~entry.substanceAdministration THEN Ret(<<>>)
    ELSE The({IF medication_name = PyNone THEN Ret(<<>>)
              ELSE The({IF m.kind = "raise" THEN m ELSE Ret(<<m.val>>) :
                        m \in {Medication(entry, medication_name)}}) :
              medication_name \in {DisplayName(entry)}})

RECURSIVE MedicationLoop(_, _, _)
MedicationLoop(root, i, found) ==
    IF i > Len(root.medEntries) THEN Ret(found)
    ELSE The({IF r.kind = "raise" THEN r ELSE MedicationLoop(root, i + 1, found \o r.val) :
              r \in {MedicationEntry(root.medEntries[i])}})

parse_medications(root) ==
    IF ~root.medSection THEN Ret(<<>>)
    ELSE MedicationLoop(root, 1, <<>>)

\* documents given to parse_medications: at most MaxMedEntries entries
MaxMedEntries == 2

Aspirin81mg == <<"a", "s", "p", "i", "r", "i", "n", " ", "8", "1", "m", "g">>
OnlyDosage == <<"5", " ", "m", "g">>
TakeDaily == <<"t", "a", "k", "e", " ", "D", "A", "I", "L", "Y">>
StartValue == <<"2", "0", "2", "3", "0", "6", "1", "5", "1", "4", "0", "0", "0", "0", "+", "0", "5", "0", "0">>
StartOverflow == <<"0", "0", "0", "1", "0", "1", "0", "1", "0", "0", "0", "0", "0", "0", "+", "0", "5", "0", "0">>

CodeElems == {<<>>} \cup {<<[displayName |-> n]>> : n \in {Aspirin81mg, OnlyDosage, <<>>, PyNone}}
TextElems == {<<>>, <<[text |-> TakeDaily]>>, <<[text |-> PyNone]>>}
LowElems == {<<[value |-> v]>> : v \in {StartValue, StartOverflow, PyNone}}
MedEntries ==
    {[substanceAdministration |-> TRUE, code |-> c, low |-> <<>>, text |-> x] :
        c \in CodeElems, x \in TextElems}
    \cup {[substanceAdministration |-> TRUE, code |-> <<[displayName |-> Aspirin81mg]>>,
           low |-> l, text |-> <<>>] : l \in LowElems}
    \cup {[substanceAdministration |-> FALSE, code |-> <<>>, low |-> <<>>, text |-> <<>>]}
MedicationInputs ==
    {[medSection |-> FALSE, medEntries |-> <<>>]}
    \cup {[medSection |-> TRUE, medEntries |-> es] : es \in SeqsUpTo(MedEntries, MaxMedEntries)}

InitMedications ==
    /\ arg \in MedicationInputs
    /\ fn = ""
    /\ ret = NotCalled
    /\ libc_pads_year \in BOOLEAN
    /\ DriverIdle

CallParseMedications ==
    /\ fn = ""
    /\ fn' = "parse_medications"
    /\ ret' = parse_medications(arg)
    /\ UNCHANGED <<arg, libc_pads_year, driver>>

NextMedications == CallParseMedications

SpecMedications == InitMedications /\ [][NextMedications]_vars

-----------------------------------------------------------------------------
(* parse_hospitalizations.  The part of a document root read here:           *)
(*   encSection   whether a section with code 46240-8 exists                 *)
(*   encounters   its entry/encounter elements: [code (the displayName       *)
(*                attributes of the code elements), effectiveTime (each      *)
(*                [low, high], the value attributes of its low and high      *)
(*                elements), values (the displayName attributes of the       *)
(*                diagnosis observations), location, providers, informants   *)
(*                (name elements, [text])]                                   *)

\* lines 183-184, 188-189: .text.strip() of each name element in turn
RECURSIVE StrippedTexts(_, _, _)
StrippedTexts(elems, i, texts) ==
    IF i > Len(elems) THEN Ret(texts)
    ELSE IF elems[i].text = PyNone THEN Raise("AttributeError")
    ELSE StrippedTexts(elems, i + 1, Append(texts, Strip(elems[i].text)))

\* lines 167-170: the date of the first value, None without one
EncounterDate(values) ==
    IF values = <<>> THEN Ret(PyNone) ELSE parse_hospitalization_date(values[1])

\* lines 147-191, one encounter: Ret(hospitalization) or the first exception raised
Hospitalization(entry) ==
    The({IF admission_date.kind = "raise" THEN admission_date
         ELSE IF discharge_date.kind = "raise" THEN discharge_date
         ELSE IF entry.location # <<>> /\ entry.location[1].text = PyNone
              THEN Raise("AttributeError")
         ELSE IF providers.kind = "raise" THEN providers
         ELSE IF informants.kind = "raise" THEN informants
         ELSE Ret([encounter_type |-> IF entry.code = <<>> THEN Unknown ELSE Strip(entry.code[1]),
                   location |-> IF entry.location = <<>> THEN Unknown
                                ELSE Strip(entry.location[1].text),
                   admission_date |-> admission_date.val,
                   discharge_date |-> discharge_date.val,
                   diagnoses |-> entry.values,
                   providers |-> providers.val,
                   informants |-> informants.val]) :
         admission_date \in {IF entry.effectiveTime = <<>> THEN Ret(PyNone)
                             ELSE EncounterDate(entry.effectiveTime[1].low)},
         discharge_date \in {IF entry.effectiveTime = <<>> THEN Ret(PyNone)
                             ELSE EncounterDate(entry.effectiveTime[1].high)},
         providers \in {StrippedTexts(entry.providers, 1, <<>>)},
         informants \in {StrippedTexts(entry.informants, 1, <<>>)}})

RECURSIVE HospitalizationLoop(_, _, _)
HospitalizationLoop(root, i, found) ==
    IF i > Len(root.encounters) THEN Ret(found)
    ELSE The({IF r.kind = "raise" THEN r
              ELSE HospitalizationLoop(root, i + 1, Append(found, r.val)) :
              r \in {Hospitalization(root.encounters[i])}})

parse_hospitalizations(root) ==
    IF ~root.encSection THEN Ret(<<>>)
    ELSE HospitalizationLoop(root, 1, <<>>)

-----------------------------------------------------------------------------
(* process_xml_files, one action per statement.  A file of the listing is    *)
(* [xml (whether its name ends in ".xml"), wellFormed (whether etree.parse   *)
(* accepts it), root (its document)].  The database and the file system are  *)
(* outside the program: each call that reaches them takes any outcome the    *)
(* call can have.                                                            *)

\* what each insert_* call and os.rename can do besides returning:
\* connect_to_db() and cursor.execute() raise mysql.connector.Error; insert_diagnoses
\* and insert_medications turn an error of execute into RuntimeError (lines 427-429,
\* 470-472); insert_hospitalizations swallows the errors of execute and commit
\* (lines 382-394), so only connect_to_db(), called before its try, can raise
InsertPatientDataRaises == {"mysql.connector.Error"}
InsertHospitalizationsRaises == {"mysql.connector.Error"}
InsertDiagnosesRaises == {"mysql.connector.Error", "RuntimeError"}
InsertMedicationsRaises == {"mysql.connector.Error", "RuntimeError"}
\* lines 442-452: the statement names seven columns and six values, which the server
\* rejects for every record, so insert_medications returns only for no records
InsertMedicationsReturns(records) == records = <<>>
RenameRaises == {"OSError"}

\* bool(patient_data), line 496
NonEmptyDict(d) == d # EmptyDict

\* an After that moves the file before insert_medications is called
AfterRenameEarly(s) ==
    CASE s = "insert_patient_data" -> "insert_hospitalizations"
      [] s = "insert_hospitalizations" -> "insert_diagnoses"
      [] s = "insert_diagnoses" -> "os.rename"
      [] s = "insert_medications" -> "for"
      [] s = "os.rename" -> "insert_medications"
\* the statement after statement s of the body of `if patient_data:` (lines 499-504)
After(s) ==
    CASE s = "insert_patient_data" -> "insert_hospitalizations"
      [] s = "insert_hospitalizations" -> "insert_diagnoses"
      [] s = "insert_diagnoses" -> "insert_medications"
      [] s = "insert_medications" -> "os.rename"
      [] s = "os.rename" -> "for"

Call(f, args, outcome) == [fn |-> f, file |-> file, args |-> args, ret |-> outcome]

\* the statement raises exc: process_xml_files has no handler, the run ends
Propagate(exc) ==
    /\ pc' = "raised"
    /\ raised' = exc

Root == listing[file].root

\* lines 480-481: the next file of the listing; a name without ".xml" is passed over
NextFile ==
    /\ pc = "for"
    /\ file < Len(listing)
    /\ file' = file + 1
    /\ pc' = IF listing[file + 1].xml THEN "etree.parse" ELSE "for"
    /\ UNCHANGED <<arg, fn, ret, libc_pads_year, listing, patient_data, hospitalizations,
                   diagnoses, medications, calls, processed, raised>>

\* the listing is exhausted: process_xml_files returns
Return ==
    /\ pc = "for"
    /\ file = Len(listing)
    /\ pc' = "returned"
    /\ UNCHANGED <<arg, fn, ret, libc_pads_year, listing, file, patient_data, hospitalizations,
                   diagnoses, medications, calls, processed, raised>>

\* lines 485-486
EtreeParse ==
    /\ pc = "etree.parse"
    /\ IF listing[file].wellFormed
       THEN pc' = "parse_patient_data" /\ UNCHANGED raised
       ELSE Propagate("XMLSyntaxError")
    /\ UNCHANGED <<arg, fn, ret, libc_pads_year, listing, file, patient_data, hospitalizations,
                   diagnoses, medications, calls, processed>>

\* line 488
ParsePatientData ==
    /\ pc = "parse_patient_data"
    /\ \E r \in {parse_patient_data(Root)} :
          /\ calls' = Append(calls, Call("parse_patient_data", <<>>, r))
          /\ patient_data' = r.val
          /\ pc' = "parse_hospitalizations"
    /\ UNCHANGED <<arg, fn, ret, libc_pads_year, listing, file, hospitalizations,
                   diagnoses, medications, processed, raised>>

\* line 489
ParseHospitalizations ==
    /\ pc = "parse_hospitalizations"
    /\ \E r \in {parse_hospitalizations(Root)} :
          /\ calls' = Append(calls, Call("parse_hospitalizations", <<>>, r))
          /\ IF r.kind = "raise"
             THEN Propagate(r.exc) /\ UNCHANGED hospitalizations
             ELSE hospitalizations' = r.val /\ pc' = "parse_diagnoses" /\ UNCHANGED raised
    /\ UNCHANGED <<arg, fn, ret, libc_pads_year, listing, file, patient_data,
                   diagnoses, medications, processed>>

\* line 490
ParseDiagnoses ==
    /\ pc = "parse_diagnoses"
    /\ \E r \in {parse_diagnoses(Root)} :
          /\ calls' = Append(calls, Call("parse_diagnoses", <<>>, r))
          /\ IF r.kind = "raise"
             THEN Propagate(r.exc) /\ UNCHANGED diagnoses
             ELSE diagnoses' = r.val /\ pc' = "parse_medications" /\ UNCHANGED raised
    /\ UNCHANGED <<arg, fn, ret, libc_pads_year, listing, file, patient_data,
                   hospitalizations, medications, processed>>

\* line 491
ParseMedications ==
    /\ pc = "parse_medications"
    /\ \E r \in {parse_medications(Root)} :
          /\ calls' = Append(calls, Call("parse_medications", <<>>, r))
          /\ IF r.kind = "raise"
             THEN Propagate(r.exc) /\ UNCHANGED medications
             ELSE medications' = r.val /\ pc' = "if patient_data" /\ UNCHANGED raised
    /\ UNCHANGED <<arg, fn, ret, libc_pads_year, listing, file, patient_data,
                   hospitalizations, diagnoses, processed>>

\* lines 493-496 (the loop of lines 493-494 only prints)
IfPatientData ==
    /\ pc = "if patient_data"
    /\ pc' = IF NonEmptyDict(patient_data) THEN "insert_patient_data" ELSE "for"
    /\ UNCHANGED <<arg, fn, ret, libc_pads_year, listing, file, patient_data, hospitalizations,
                   diagnoses, medications, calls, processed, raised>>

\* the call f(args) of the `if` body returns, or raises exc
Returns(f, args) ==
    /\ calls' = Append(calls, Call(f, args, Ret(PyNone)))
    /\ pc' = After(f)
    /\ UNCHANGED raised
Raises(f, args, exc) ==
    /\ calls' = Append(calls, Call(f, args, Raise(exc)))
    /\ Propagate(exc)

\* line 499
InsertPatientData ==
    /\ pc = "insert_patient_data"
    /\ \/ Returns("insert_patient_data", <<patient_data>>)
       \/ \E exc \in InsertPatientDataRaises : Raises("insert_patient_data", <<patient_data>>, exc)
    /\ UNCHANGED <<arg, fn, ret, libc_pads_year, listing, file, patient_data, hospitalizations,
                   diagnoses, medications, processed>>

\* line 500
InsertHospitalizations ==
    /\ pc = "insert_hospitalizations"
    /\ \E args \in {<<hospitalizations, patient_data.patient_id>>} :
          \/ Returns("insert_hospitalizations", args)
          \/ \E exc \in InsertHospitalizationsRaises : Raises("insert_hospitalizations", args, exc)
    /\ UNCHANGED <<arg, fn, ret, libc_pads_year, listing, file, patient_data, hospitalizations,
                   diagnoses, medications, processed>>

\* line 501
InsertDiagnoses ==
    /\ pc = "insert_diagnoses"
    /\ \E args \in {<<diagnoses, patient_data.patient_id>>} :
          \/ Returns("insert_diagnoses", args)
          \/ \E exc \in InsertDiagnosesRaises : Raises("insert_diagnoses", args, exc)
    /\ UNCHANGED <<arg, fn, ret, libc_pads_year, listing, file, patient_data, hospitalizations,
                   diagnoses, medications, processed>>

\* line 502
InsertMedications ==
    /\ pc = "insert_medications"
    /\ \E args \in {<<medications, patient_data.patient_id>>} :
          \/ InsertMedicationsReturns(medications) /\ Returns("insert_medications", args)
          \/ \E exc \in InsertMedicationsRaises : Raises("insert_medications", args, exc)
    /\ UNCHANGED <<arg, fn, ret, libc_pads_year, listing, file, patient_data, hospitalizations,
                   diagnoses, medications, processed>>

\* line 504
OsRename ==
    /\ pc = "os.rename"
    /\ \/ /\ processed' = processed \cup {file}
          /\ pc' = After("os.rename")
          /\ UNCHANGED raised
       \/ \E exc \in RenameRaises : Propagate(exc) /\ UNCHANGED processed
    /\ UNCHANGED <<arg, fn, ret, libc_pads_year, listing, file, patient_data, hospitalizations,
                   diagnoses, medications, calls>>

\* the files put in data/incoming: at most MaxFiles of them
MaxFiles == 2

Id123 == <<"1", "2", "3">>
Id456 == <<"4", "5", "6">>
Inpatient == <<"I", "n", "p", "a", "t", "i", "e", "n", "t">>
GeneralHospital == <<"G", "e", "n", "e", "r", "a", "l", " ", "H", "o", "s", "p", "i", "t", "a", "l">>
AdmitValue == <<"2", "0", "2", "3", "0", "6", "1", "0", "0", "8", "0", "0", "0", "0", "+", "0", "5", "0", "0">>

NoPatient == [patientRole |-> FALSE, ids |-> <<>>, telecoms |-> <<>>]
Patient(ids) ==
    [patientRole |-> TRUE, ids |-> ids,
     telecoms |-> <<[use |-> <<"H", "P">>, value |-> TelPrefix \o <<"5", "5", "5">>]>>]
NoProblems == [problemSection |-> FALSE, tbody |-> FALSE, rows |-> <<>>, entries |-> <<>>]
Problems(entries) ==
    [problemSection |-> TRUE, tbody |-> TRUE,
     rows |-> <<[ID |-> Problem1,
                 cells |-> <<NameCell(Problem1, Hypertension), DateCell(NarrativeDateText)>>]>>,
     entries |-> entries]
CodedEntry ==
    [ref |-> Hash \o Problem1,
     translations |-> <<[code |-> I10, displayName |-> EssentialHypertension]>>]
NoMedications == [medSection |-> FALSE, medEntries |-> <<>>]
OneMedication ==
    [medSection |-> TRUE,
     medEntries |-> <<[substanceAdministration |-> TRUE,
                       code |-> <<[displayName |-> Aspirin81mg]>>,
                       low |-> <<[value |-> StartValue]>>,
                       text |-> <<[text |-> TakeDaily]>>]>>]
NoEncounters == [encSection |-> FALSE, encounters |-> <<>>]
Encounter(providers) ==
    [encSection |-> TRUE,
     encounters |-> <<[code |-> <<Inpatient>>,
                       effectiveTime |-> <<[low |-> <<AdmitValue>>, high |-> <<>>]>>,
                       values |-> <<Hypertension>>,
                       location |-> <<[text |-> GeneralHospital]>>,
                       providers |-> providers,
                       informants |-> <<>>]>>]

\* a document root: the parts read by the four parsers together
Document(patient, problems, meds, encounters) ==
    [f \in (DOMAIN patient) \cup (DOMAIN problems) \cup (DOMAIN meds) \cup (DOMAIN encounters) |->
        IF f \in DOMAIN patient THEN patient[f]
        ELSE IF f \in DOMAIN problems THEN problems[f]
        ELSE IF f \in DOMAIN meds THEN meds[f]
        ELSE encounters[f]]

Documents ==
    {Document(NoPatient, NoProblems, NoMedications, NoEncounters),
     Document(NoPatient, Problems(<<CodedEntry>>), OneMedication, Encounter(<<>>)),
     Document(NoPatient, Problems(<<>>), NoMedications, NoEncounters),
     Document(Patient(<<>>), Problems(<<CodedEntry>>), NoMedications, NoEncounters),
     Document(Patient(<<PyNone>>), NoProblems, NoMedications, Encounter(<<>>)),
     Document(Patient(<<Id123>>), NoProblems, NoMedications, NoEncounters),
     Document(Patient(<<Id456>>), Problems(<<CodedEntry>>), NoMedications,
              Encounter(<<[text |-> GeneralHospital]>>)),
     Document(Patient(<<Id123>>), NoProblems, OneMedication, NoEncounters),
     Document(Patient(<<Id123>>), Problems(<<>>), NoMedications, NoEncounters),
     Document(Patient(<<Id123>>), NoProblems, NoMedications, Encounter(<<[text |-> PyNone]>>))}

Files ==
    {[xml |-> TRUE, wellFormed |-> TRUE, root |-> d] : d \in Documents}
    \cup {[xml |-> x, wellFormed |-> ~x, root |-> Document(NoPatient, NoProblems, NoMedications, NoEncounters)] :
            x \in BOOLEAN}

InitFiles ==
    /\ arg = <<>>
    /\ fn = ""
    /\ ret = NotCalled
    /\ libc_pads_year \in BOOLEAN
    /\ listing \in SeqsUpTo(Files, MaxFiles)
    /\ file = 0
    /\ pc = "for"
    /\ patient_data = Unbound
    /\ hospitalizations = Unbound
    /\ diagnoses = Unbound
    /\ medications = Unbound
    /\ calls = <<>>
    /\ processed = {}
    /\ raised = ""

NextFiles ==
    \/ NextFile
    \/ Return
    \/ EtreeParse
    \/ ParsePatientData
    \/ ParseHospitalizations
    \/ ParseDiagnoses
    \/ ParseMedications
    \/ IfPatientData
    \/ InsertPatientData
    \/ InsertHospitalizations
    \/ InsertDiagnoses
    \/ InsertMedications
    \/ OsRename

SpecFiles == InitFiles /\ [][NextFiles]_vars

-----------------------------------------------------------------------------
(* The four parsers on one document: each is called on a root in which any   *)
(* of the four sections may be missing while the rest of the document (id    *)
(* elements, coded entries) is there.                                        *)

PatientParts ==
    {[patientRole |-> FALSE, ids |-> ids, telecoms |-> <<>>] : ids \in IdLists}
    \cup {Patient(<<Id123>>)}
ProblemParts ==
    {[problemSection |-> FALSE, tbody |-> FALSE, rows |-> <<>>, entries |-> es] :
        es \in {<<>>, <<CodedEntry>>}}
    \cup {Problems(<<CodedEntry>>)}
    \cup {[problemSection |-> TRUE, tbody |-> TRUE,
           rows |-> <<[ID |-> Problem1, cells |-> cells]>>,
           entries |-> <<[ref |-> Hash \o Problem2, translations |-> <<>>], CodedEntry>>] :
            cells \in {<<DateCell(NarrativeDateText), NameCell(Problem1, Hypertension)>>,
                       <<NameCell(Problem1, Hypertension), DateCell(NarrativeDateText)>>}}
MedicationParts == {NoMedications, OneMedication}
EncounterParts == {NoEncounters, Encounter(<<[text |-> GeneralHospital]>>)}
SectionInputs ==
    {Document(patient, problems, meds, encounters) :
        patient \in PatientParts, problems \in ProblemParts,
        meds \in MedicationParts, encounters \in EncounterParts}

InitSections ==
    /\ arg \in SectionInputs
    /\ fn = ""
    /\ ret = NotCalled
    /\ libc_pads_year = TRUE
    /\ DriverIdle

CallParseHospitalizations ==
    /\ fn = ""
    /\ fn' = "parse_hospitalizations"
    /\ ret' = parse_hospitalizations(arg)
    /\ UNCHANGED <<arg, libc_pads_year, driver>>

NextSections ==
    \/ CallParsePatientData
    \/ CallParseHospitalizations
    \/ CallParseDiagnoses
    \/ CallParseMedications

SpecSections == InitSections /\ [][NextSections]_vars

-----------------------------------------------------------------------------
(* Claims about the compact-timestamp normalizer *)

AllDigits(s) == \A i \in DOMAIN s : IsDigit(s[i])
Plus0500 == <<"+", "0", "5", "0", "0">>

\* the fixed-width reading of YYYYMMDDHHMMSS
FieldsOf(t) ==
    [year |-> DigitsValue(SubSeq(t, 1, 4), 0), month |-> DigitsValue(SubSeq(t, 5, 6), 0),
     day |-> DigitsValue(SubSeq(t, 7, 8), 0), hour |-> DigitsValue(SubSeq(t, 9, 10), 0),
     minute |-> DigitsValue(SubSeq(t, 11, 12), 0), second |-> DigitsValue(SubSeq(t, 13, 14), 0)]
IsTimestamp14(t) ==
    /\ Len(t) = 14 /\ AllDigits(t)
    /\ LET f == FieldsOf(t) IN ValidDateTime(f.year, f.month, f.day, f.hour, f.minute, f.second)

\* 'YYYY-MM-DD HH:MM:SS'
CanonicalText(f) ==
    PadZero(Decimal(f.year), 4) \o <<"-">> \o PadZero(Decimal(f.month), 2) \o <<"-">>
    \o PadZero(Decimal(f.day), 2) \o <<" ">> \o PadZero(Decimal(f.hour), 2) \o <<":">>
    \o PadZero(Decimal(f.minute), 2) \o <<":">> \o PadZero(Decimal(f.second), 2)
IsCanonical(v) ==
    /\ Len(v) = 19
    /\ v[5] = "-" /\ v[8] = "-" /\ v[11] = " " /\ v[14] = ":" /\ v[17] = ":"
    /\ \A i \in (1..19) \ {5, 8, 11, 14, 17} : IsDigit(v[i])

\* five hours before a wall-clock time, by the calendar rule
FiveHoursEarlier(f) ==
    IF f.hour >= 5 THEN [f EXCEPT !.hour = f.hour - 5]
    ELSE IF f.day > 1 THEN [f EXCEPT !.hour = f.hour + 19, !.day = f.day - 1]
    ELSE IF f.month > 1
         THEN [f EXCEPT !.hour = f.hour + 19, !.month = f.month - 1,
                        !.day = DaysInMonth(f.year, f.month - 1)]
    ELSE [f EXCEPT !.hour = f.hour + 19, !.year = f.year - 1, !.month = 12, !.day = 31]

IsPlus0500Input(s) == Len(s) = 19 /\ IsTimestamp14(SubSeq(s, 1, 14)) /\ SubSeq(s, 15, 19) = Plus0500
Called == fn \in {"parse_hospitalization_date", "parse_ccda_date"}

\* C3: every valid YYYYMMDDHHMMSS+0500 is returned as the canonical text of the
\* same timestamp five hours earlier, across day, month and year boundaries.
C3_Plus0500FiveHoursEarlier ==
    (Called /\ IsPlus0500Input(arg))
        => ret = Ret(CanonicalText(FiveHoursEarlier(FieldsOf(SubSeq(arg, 1, 14)))))

\* C3 holds of every such timestamp from year 1000 on: the failures are the
\* first five hours of year 1 and the unpadded years below 1000.
Plus0500FromYear1000 ==
    (Called /\ IsPlus0500Input(arg) /\ FieldsOf(SubSeq(arg, 1, 14)).year >= 1000)
        => ret = Ret(CanonicalText(FiveHoursEarlier(FieldsOf(SubSeq(arg, 1, 14)))))

IsSignedOffset(o) == Len(o) = 5 /\ o[1] \in {"+", "-"} /\ AllDigits(Tail(o))
IsStr(v) == v # PyNone

\* C4: for every input the normalizer returns a canonical text or None and never
\* raises; an input shorter than 8 characters, one whose first 14 characters are
\* not a complete valid timestamp, or one whose trailing offset is not a signed
\* 4-digit number gives None.
C4_CanonicalOrAbsentNeverRaises ==
    (Called /\ IsStr(arg)) =>
        /\ ret.kind = "return"
        /\ ret.val = PyNone \/ IsCanonical(ret.val)
        /\ Len(arg) < 8 => ret.val = PyNone
        /\ ~IsTimestamp14(Slice(arg, 0, 14)) => ret.val = PyNone
        /\ (Len(arg) > 14 /\ ~IsSignedOffset(Slice(arg, 14, Len(arg)))) => ret.val = PyNone

\* the part of C4 that the code keeps: an input shorter than 8 characters gives None
ShortInputAbsent == (Called /\ IsStr(arg) /\ Len(arg) < 8) => ret = Ret(PyNone)

-----------------------------------------------------------------------------
(* Claims about extract_dosage *)

\* the first dosage-shaped substring of name: [ok, start, lens]
FirstDosage(name) == SearchFrom(DosagePattern, name, 1)

\* number, one space, unit: the matched text with the gap between them set to one space
ClaimedDosage(name) ==
    LET m == FirstDosage(name)
        number == m.lens[1] + m.lens[2] + m.lens[3]
        gap == m.lens[4]
        total == SumSeq(m.lens)
    IN  SubSeq(name, m.start, m.start + number - 1) \o <<" ">>
        \o SubSeq(name, m.start + number + gap, m.start + total - 1)

\* the name with that one substring taken out and whitespace collapsed
ClaimedCleanedName(name) ==
    LET m == FirstDosage(name)
        total == SumSeq(m.lens)
    IN  JoinSplit(SubSeq(name, 1, m.start - 1) \o SubSeq(name, m.start + total, Len(name)))

\* C10: for every name, the dosage is the first digits(.digits)-letters(/letters)
\* substring with one space between number and unit, the cleaned name is the
\* name with that one substring removed and whitespace collapsed; a name with no
\* such substring comes back unchanged with no dosage.
C10_DosageSplit ==
    fn = "extract_dosage" =>
        IF FirstDosage(arg).ok
        THEN ret = Ret(<<ClaimedDosage(arg), ClaimedCleanedName(arg)>>)
        ELSE ret = Ret(<<PyNone, arg>>)

\* what the code keeps of C10: a non-empty name with no dosage-shaped substring
\* comes back unchanged with no dosage
NoDosagePassesThrough ==
    (fn = "extract_dosage" /\ arg # <<>> /\ ~FirstDosage(arg).ok) => ret = Ret(<<PyNone, arg>>)

-----------------------------------------------------------------------------
(* Claims about the telecom classification of parse_patient_data *)

Tel5551212 == <<"t", "e", "l", ":", "5", "5", "5", "-", "1", "2", "1", "2">>
Bare5551212 == <<"5", "5", "5", "-", "1", "2", "1", "2">>

HasMarker(use, marker) == use # PyNone /\ Contains(Lower(use), marker)
IsHomeUse(use) == HasMarker(use, HpMarker)
IsMobileUse(use) == HasMarker(use, McMarker) /\ ~HasMarker(use, HpMarker)
IsHomeLikeUse(use) == HasMarker(use, HMarker) /\ ~HasMarker(use, HpMarker) /\ ~HasMarker(use, McMarker)

\* a contact value without its tel: or mailto: scheme
WithoutScheme(value) ==
    IF MatchesAt(value, TelPrefix, 1) THEN SubSeq(value, Len(TelPrefix) + 1, Len(value))
    ELSE IF MatchesAt(value, MailtoPrefix, 1) THEN SubSeq(value, Len(MailtoPrefix) + 1, Len(value))
    ELSE value
\* what the claim says is stored for a value
ClaimedStored(value) ==
    IF Lower(WithoutScheme(value)) \in {LowerNone, LowerNull} THEN NoneSentinel
    ELSE WithoutScheme(value)

PatientParsed == fn = "parse_patient_data" /\ ret # Ret(EmptyDict)
\* entry i is the last one of its class, so nothing overwrites what it stored
LastWhere(i, IsClass(_)) ==
    /\ IsClass(arg.telecoms[i].use)
    /\ arg.telecoms[i].value # PyNone
    /\ \A j \in (i + 1)..Len(arg.telecoms) : ~IsClass(arg.telecoms[j].use)

\* C5: a telecom whose use contains HP (any case) stores its value without the
\* tel: prefix as home phone (tel:555-1212 gives 555-1212), one whose use
\* contains MC and not HP stores it as mobile phone, and in both a value that is
\* none/null in any case is stored as the sentinel "None".
C5_HomeAndMobilePhone ==
    PatientParsed =>
        \A i \in DOMAIN arg.telecoms :
            /\ LastWhere(i, IsHomeUse) => ret.val.home_phone = ClaimedStored(arg.telecoms[i].value)
            /\ LastWhere(i, IsMobileUse) => ret.val.mobile_phone = ClaimedStored(arg.telecoms[i].value)
            /\ (LastWhere(i, IsHomeUse) /\ arg.telecoms[i].value = Tel5551212)
                    => ret.val.home_phone = Bare5551212

\* a home entry tel:555-1212 was stored as 555-1212 and a mobile entry NULL as "None"
C5_Witness ==
    /\ PatientParsed
    /\ \E i \in DOMAIN arg.telecoms :
            LastWhere(i, IsHomeUse) /\ arg.telecoms[i].value = Tel5551212
    /\ \E i \in DOMAIN arg.telecoms :
            LastWhere(i, IsMobileUse) /\ arg.telecoms[i].value = <<"N", "U", "L", "L">>
    /\ ret.val.home_phone = Bare5551212
    /\ ret.val.mobile_phone = NoneSentinel

\* C6: a telecom whose use contains H but neither HP nor MC and whose value is
\* mailto:<address> is classified as email: the email field is <address>.
C6_HomeLikeMailtoIsEmail ==
    PatientParsed =>
        \A i \in DOMAIN arg.telecoms :
            (LastWhere(i, IsHomeLikeUse) /\ MatchesAt(arg.telecoms[i].value, MailtoPrefix, 1))
                => ret.val.email = WithoutScheme(arg.telecoms[i].value)

-----------------------------------------------------------------------------
(* Claims about parse_diagnoses *)

DiagnosesCalled == fn = "parse_diagnoses"
IsProblemRow(tr) == tr.ID # PyNone /\ ReMatch(ProblemIdPattern, tr.ID).ok
\* the row has a '<row-id>-problem' content fragment
HasFragment(tr) ==
    \E i \in DOMAIN tr.cells : \E j \in DOMAIN tr.cells[i] :
        tr.cells[i][j].ID = tr.ID \o ProblemSuffix
\* ... and the first such fragment has text
FragmentHasText(tr) ==
    \A i \in DOMAIN tr.cells : \A j \in DOMAIN tr.cells[i] :
        tr.cells[i][j].ID = tr.ID \o ProblemSuffix => tr.cells[i][j].text # PyNone
\* the row has a cell that starts with a date-shaped text
HasDateCell(tr) ==
    \E i \in DOMAIN tr.cells :
        /\ tr.cells[i] # <<>>
        /\ tr.cells[i][1].text # PyNone
        /\ ReMatch(DateShapePattern, tr.cells[i][1].text).ok
HasCodedEntry(root, tr) == \E k \in DOMAIN root.entries : root.entries[k].ref = Hash \o tr.ID

RowsWhere(root, P(_)) == {i \in DOMAIN root.rows : P(root.rows[i])}

\* C7: every element of the returned list has a non-empty description and a
\* non-empty date; a row without its '<row-id>-problem' fragment or without a
\* date-shaped cell contributes no element.
C7_DiagnosesHaveDescriptionAndDate ==
    (DiagnosesCalled /\ ret.kind = "return") =>
        /\ \A k \in DOMAIN ret.val :
              /\ Truthy(ret.val[k].diagnosis_description)
              /\ Truthy(ret.val[k].diagnosis_date)
        /\ LET Complete(tr) == IsProblemRow(tr) /\ HasFragment(tr) /\ HasDateCell(tr)
           IN  Len(ret.val) <= Cardinality(RowsWhere(arg, Complete))

\* a list with a diagnosis was returned from rows of which one lacks its fragment or its date
C7_Witness ==
    /\ DiagnosesCalled /\ ret.kind = "return"
    /\ ret.val # <<>>
    /\ \E i \in DOMAIN arg.rows :
          IsProblemRow(arg.rows[i]) /\ (~HasFragment(arg.rows[i]) \/ ~HasDateCell(arg.rows[i]))

\* C8: when a problem-<number> row has no coded entry referencing it, or its
\* fragment has no text, parse_diagnoses does not raise and returns the
\* diagnoses of the rows that do resolve.
C8_UnresolvedAnchorDoesNotRaise ==
    LET Unresolved(tr) == IsProblemRow(tr) /\ (~HasCodedEntry(arg, tr) \/ ~FragmentHasText(tr))
        Resolved(tr) ==
            /\ IsProblemRow(tr) /\ HasCodedEntry(arg, tr)
            /\ HasFragment(tr) /\ FragmentHasText(tr) /\ HasDateCell(tr)
    IN  (DiagnosesCalled /\ arg.problemSection /\ arg.tbody /\ RowsWhere(arg, Unresolved) # {}) =>
            /\ ret.kind = "return"
            /\ Len(ret.val) >= Cardinality(RowsWhere(arg, Resolved))

-----------------------------------------------------------------------------
(* Claims about parse_medications *)

MedicationsReturned == fn = "parse_medications" /\ ret.kind = "return"
HasDisplayName(entry) == entry.code # <<>> /\ entry.code[1].displayName # PyNone
\* the name is a dosage token and nothing else
IsOnlyDosage(name) ==
    LET m == FirstDosage(name)
    IN  /\ m.ok
        /\ \A i \in DOMAIN name :
              (i < m.start \/ i >= m.start + SumSeq(m.lens)) => IsSpace(name[i])
\* the name resolves: an element, with a display name, that is more than a dosage
NameResolves(entry) ==
    /\ HasDisplayName(entry)
    /\ entry.code[1].displayName # <<>>
    /\ ~IsOnlyDosage(entry.code[1].displayName)
Administrations(root) == SelectSeq(root.medEntries, LAMBDA e : e.substanceAdministration)

-----------------------------------------------------------------------------
(* Claims about process_xml_files *)

\* the document has no identifier for the patient: no patientRole at all, no id
\* element, or a first id element without the extension attribute
LacksPatientId(root) == ~root.patientRole \/ root.ids = <<>> \/ root.ids[1] = PyNone

InsertOrder ==
    <<"insert_patient_data", "insert_hospitalizations", "insert_diagnoses", "insert_medications">>
IsInsert(c) == c.fn \in Range(InsertOrder)
IsDependentParse(c) ==
    c.fn \in {"parse_hospitalizations", "parse_diagnoses", "parse_medications"}
\* the insert_* calls made for the file at position f, in the order made
InsertsOf(f) == SelectSeq(calls, LAMBDA c : c.file = f /\ IsInsert(c))

\* C1: for every document that lacks a patient identifier, parse_patient_data
\* returns the empty result, and process_xml_files calls none of
\* parse_hospitalizations, parse_diagnoses, parse_medications and none of the
\* insert_* operations for that document.
C1_NoIdentifierNothingInvoked ==
    \A i \in DOMAIN calls :
        LacksPatientId(listing[calls[i].file].root) =>
            /\ calls[i].fn = "parse_patient_data" => calls[i].ret = Ret(EmptyDict)
            /\ ~IsDependentParse(calls[i])
            /\ ~IsInsert(calls[i])

\* what does hold: for a document without a patientRole element no insert_* is
\* called and the file is not moved
NoPatientRoleNothingPersisted ==
    \A f \in DOMAIN listing :
        ~listing[f].root.patientRole => InsertsOf(f) = <<>> /\ f \notin processed

\* C2: within one document, an insert_* call is made only after
\* parse_patient_data returned a non-empty record for it; the insert_* calls come
\* in the order insert_patient_data, insert_hospitalizations, insert_diagnoses,
\* insert_medications, each only after the one before it returned, the last three
\* with the patient_id of the record given to insert_patient_data; and the file is
\* moved to data/processed only after all four returned without raising.
C2_PatientFirstThenDependentsThenMove ==
    \A f \in DOMAIN listing :
        LET inserts == InsertsOf(f)
        IN  /\ Len(inserts) <= Len(InsertOrder)
            /\ \A j \in DOMAIN inserts :
                  /\ inserts[j].fn = InsertOrder[j]
                  /\ j > 1 => /\ inserts[j - 1].ret.kind = "return"
                              /\ inserts[j].args[2] = inserts[1].args[1].patient_id
            /\ \A i \in DOMAIN calls :
                  (calls[i].file = f /\ IsInsert(calls[i])) =>
                      \E p \in 1..(i - 1) :
                          /\ calls[p].file = f
                          /\ calls[p].fn = "parse_patient_data"
                          /\ calls[p].ret.kind = "return"
                          /\ calls[p].ret.val # EmptyDict
                          /\ inserts[1].args[1] = calls[p].ret.val
            /\ f \in processed =>
                  /\ Len(inserts) = Len(InsertOrder)
                  /\ \A j \in DOMAIN inserts : inserts[j].ret.kind = "return"

\* a second file with a diagnosis and an encounter went through all four inserts
\* and was moved, after the first file had been moved too
C2_Witness ==
    /\ pc = "returned"
    /\ processed = {1, 2}
    /\ Len(InsertsOf(2)) = Len(InsertOrder)
    /\ InsertsOf(2)[3].args[1] # <<>>
    /\ InsertsOf(2)[2].args[1] # <<>>
    /\ InsertsOf(2)[1].args[1].patient_id # InsertsOf(1)[1].args[1].patient_id

-----------------------------------------------------------------------------
(* Claims about a missing section *)

\* the section that parser f reads is not in the document
SectionAbsent(f, root) ==
    CASE f = "parse_patient_data" -> ~root.patientRole
      [] f = "parse_hospitalizations" -> ~root.encSection
      [] f = "parse_diagnoses" -> ~root.problemSection
      [] f = "parse_medications" -> ~root.medSection
      [] OTHER -> FALSE
\* the empty result of parser f
EmptyResult(f) == IF f = "parse_patient_data" THEN EmptyDict ELSE <<>>

\* C11: when the section a parser reads is absent (no patientRole, no section
\* 46240-8, no problem section, no section 10160-0), parse_patient_data,
\* parse_hospitalizations, parse_diagnoses and parse_medications return the
\* empty result and do not raise.
C11_AbsentSectionEmptyResult ==
    SectionAbsent(fn, arg) => ret = Ret(EmptyResult(fn))

\* parse_patient_data was called on a document with an id element and a coded
\* entry but none of the four sections, and returned the empty result
C11_Witness ==
    /\ fn = "parse_patient_data"
    /\ \A f \in {"parse_patient_data", "parse_hospitalizations", "parse_diagnoses",
                  "parse_medications"} : SectionAbsent(f, arg)
    /\ arg.ids = <<Id123>>
    /\ arg.entries # <<>>
    /\ ret = Ret(EmptyDict)

-----------------------------------------------------------------------------
(* The end-to-end scenario of parse_diagnoses *)

ConvertedDate == <<"2", "0", "2", "3", "-", "0", "6", "-", "1", "5", " ", "1", "4", ":", "3", "0", ":", "0", "0">>

\* one patient with id 123; one row problem-1 holding, in either order, the
\* fragment problem-1-problem "Hypertension" and the date cell
\* "06/15/2023 02:30:00 PM"; one coded entry that references #problem-1, with
\* the ICD-10 translation I10 "Essential hypertension"
IsScenario(root) ==
    /\ root.patientRole /\ root.ids = <<Id123>>
    /\ root.problemSection /\ root.tbody
    /\ Len(root.rows) = 1
    /\ root.rows[1].ID = Problem1
    /\ Len(root.rows[1].cells) = 2
    /\ Range(root.rows[1].cells) = {NameCell(Problem1, Hypertension), DateCell(NarrativeDateText)}
    /\ SelectSeq(root.entries, LAMBDA e : e.ref = Hash \o Problem1) = <<CodedEntry>>

\* C12: for the scenario document parse_diagnoses returns exactly one entry,
\* with description "Hypertension", date "2023-06-15 14:30:00", icd10_code
\* "I10" and severity "Essential hypertension".
C12_ScenarioYieldsOneDiagnosis ==
    (fn = "parse_diagnoses" /\ IsScenario(arg)) =>
        ret = Ret(<<[diagnosis_description |-> Hypertension,
                     diagnosis_date |-> ConvertedDate,
                     icd10_code |-> I10,
                     severity |-> EssentialHypertension]>>)

\* parse_diagnoses returned on the scenario document, here with the date cell
\* before the name cell and another entry before the coded one
C12_Witness ==
    /\ fn = "parse_diagnoses"
    /\ IsScenario(arg)
    /\ arg.rows[1].cells[1] = DateCell(NarrativeDateText)
    /\ Len(arg.entries) = 2
    /\ ret.kind = "return"
    /\ Len(ret.val) = 1

-----------------------------------------------------------------------------
(* Claims about signed offsets *)

IsSignedOffsetInput(s) ==
    Len(s) = 19 /\ IsTimestamp14(SubSeq(s, 1, 14)) /\ IsSignedOffset(SubSeq(s, 15, 19))

\* the offset sHHMM in minutes: s * (HH hours + MM minutes)
OffsetMinutes(o) ==
    (IF o[1] = "-" THEN 0 - 1 ELSE 1)
        * (DigitsValue(SubSeq(o, 2, 3), 0) * 60 + DigitsValue(SubSeq(o, 4, 5), 0))

\* the minute of the day and the day number n minutes before wall-clock time f
MinuteBefore(f, n) == f.hour * 60 + f.minute - n
OrdinalBefore(f, n) == ToOrdinal(f.year, f.month, f.day) + MinuteBefore(f, n) \div 1440
InDatetimeRange(f, n) ==
    OrdinalBefore(f, n) >= 1 /\ OrdinalBefore(f, n) <= ToOrdinal(MAXYEAR, 12, 31)
\* the wall-clock time n minutes before f
MinutesEarlier(f, n) ==
    LET ymd == FromOrdinal(OrdinalBefore(f, n))
        rest == MinuteBefore(f, n) % 1440
    IN  [year |-> ymd[1], month |-> ymd[2], day |-> ymd[3],
         hour |-> rest \div 60, minute |-> rest % 60, second |-> f.second]

\* the result the claim gives for timestamp-with-offset s
WholeOffsetSubtracted(s) ==
    LET f == FieldsOf(SubSeq(s, 1, 14))
        n == OffsetMinutes(SubSeq(s, 15, 19))
    IN  /\ InDatetimeRange(f, n)
        /\ ret = Ret(CanonicalText(MinutesEarlier(f, n)))

\* C13: for every compact timestamp with a signed offset sHHMM, negative
\* offsets with non-zero minutes included, the result is the local timestamp
\* minus s*(HH hours + MM minutes): hours and minutes of the offset are applied
\* in the same direction.
C13_WholeSignedOffsetSubtracted ==
    (Called /\ IsSignedOffsetInput(arg)) => WholeOffsetSubtracted(arg)

\* what does hold: from year 1000 on and inside the datetime range, the whole
\* offset is subtracted when it is positive or has zero minutes
WholeOffsetWhenPositiveOrWholeHours ==
    (/\ Called /\ IsSignedOffsetInput(arg)
     /\ FieldsOf(SubSeq(arg, 1, 14)).year >= 1000
     /\ InDatetimeRange(FieldsOf(SubSeq(arg, 1, 14)), OffsetMinutes(SubSeq(arg, 15, 19)))
     /\ (arg[15] = "+" \/ SubSeq(arg, 18, 19) = <<"0", "0">>))
        => WholeOffsetSubtracted(arg)

\* what the code does with -HHMM: HH hours are added and MM minutes are
\* subtracted (from year 1000 on and inside the datetime range)
NegativeOffsetMinutesOpposite ==
    (/\ Called /\ IsSignedOffsetInput(arg)
     /\ arg[15] = "-"
     /\ FieldsOf(SubSeq(arg, 1, 14)).year >= 1000)
        => LET f == FieldsOf(SubSeq(arg, 1, 14))
               n == DigitsValue(SubSeq(arg, 18, 19), 0) - DigitsValue(SubSeq(arg, 16, 17), 0) * 60
           IN  IF InDatetimeRange(f, n) THEN ret = Ret(CanonicalText(MinutesEarlier(f, n)))
               ELSE ret = Raise("OverflowError")

====
